---- MODULE Spec2Model ----
(***************************************************************************)
(* GAIA cost accounting: fix_cost.py (retry detection and cost             *)
(* reconciliation), analyze_cost.py (global totals and averages) and       *)
(* get_score.py (per-Level success rates and costs).                       *)
(*                                                                         *)
(* Python values are modelled as follows.  A str is a sequence of          *)
(* one-character strings.  A dict is a function from its keys to its       *)
(* values, so `k in d` is k \in DOMAIN d.  Token and call counts are       *)
(* integers; total_cost is a fixed-point number of cost units, so that     *)
(* cost * multiplier and the running sums are the products and sums the    *)
(* code computes.                                                          *)
(***************************************************************************)
EXTENDS Integers, Sequences, FiniteSets, TLC

(***************************************************************************)
(* Bounds of the model.                                                    *)
(***************************************************************************)
\* longest message transcript of an instance given to fix_instance_cost
MaxMsgs == 2
\* most lines of an input file of fix, of analyze and of score
MaxFixLines == 3
MaxAnalyzeLines == 3
MaxScoreLines == 4

(***************************************************************************)
(* str operations                                                          *)
(***************************************************************************)
UpperCase ==
    <<"A","B","C","D","E","F","G","H","I","J","K","L","M",
      "N","O","P","Q","R","S","T","U","V","W","X","Y","Z">>
LowerCase ==
    <<"a","b","c","d","e","f","g","h","i","j","k","l","m",
      "n","o","p","q","r","s","t","u","v","w","x","y","z">>

\* one character of str.lower()
LowerChar(c) ==
    IF \E i \in 1..26 : UpperCase[i] = c
    THEN LowerCase[CHOOSE i \in 1..26 : UpperCase[i] = c]
    ELSE c

\* str.lower()
Lower(s) == [i \in 1..Len(s) |-> LowerChar(s[i])]

\* sub occurs in s at index i (1-based)
OccursAt(s, sub, i) ==
    /\ i + Len(sub) - 1 <= Len(s)
    /\ \A j \in 1..Len(sub) : s[i + j - 1] = sub[j]

\* `sub in s`
Contains(s, sub) == \E i \in 1..(Len(s) + 1) : OccursAt(s, sub, i)

\* s.replace(old, new) from index i on: every non-overlapping occurrence of
\* old, scanning left to right (old is not empty)
RECURSIVE ReplaceFrom(_, _, _, _)
ReplaceFrom(s, old, new, i) ==
    IF i > Len(s) THEN <<>>
    ELSE IF OccursAt(s, old, i)
         THEN new \o ReplaceFrom(s, old, new, i + Len(old))
         ELSE <<s[i]>> \o ReplaceFrom(s, old, new, i + 1)

\* s.replace(old, new)
Replace(s, old, new) == ReplaceFrom(s, old, new, 1)

(***************************************************************************)
(* dict operations                                                         *)
(***************************************************************************)
\* {}
EmptyDict == [k \in {} |-> 0]

\* d.get(k, default)
Get(d, k, default) == IF k \in DOMAIN d THEN d[k] ELSE default

\* d[k] = v on a copy of d
Put(d, k, v) == [x \in (DOMAIN d) \cup {k} |-> IF x = k THEN v ELSE d[x]]

(***************************************************************************)
(* String literals of fix_cost.py                                          *)
(***************************************************************************)
RetryPhrase ==
    <<"t","r","y"," ","t","o"," ","r","e","s","o","l","v","e"," ","t","h","e"," ","c","a","s","e"," ","a","g","a","i","n">>
UnresolvedPhrase ==
    <<"C","a","s","e"," ","n","o","t"," ","r","e","s","o","l","v","e","d">>
MetaPhrase ==
    <<"e","x","i","s","t","i","n","g"," ","a","g","e","n","t"," ","s","y","s","t","e","m">>
MetaMarker ==
    <<"M","e","t","a","C","h","a","i","n">>
JsonlSuffix ==
    <<".","j","s","o","n","l">>
FixedSuffix ==
    <<"_","f","i","x","e","d",".","j","s","o","n","l">>
DevNull ==
    <<"/","d","e","v","/","n","u","l","l">>

(***************************************************************************)
(* Message contents.  A content is a str ([type |-> "str", value |-> s])   *)
(* or a structured value ([type |-> "list", ...]), as in a tool-call       *)
(* message.                                                                *)
(***************************************************************************)
Str(s) == [type |-> "str", value |-> s]
Structured == [type |-> "list", value |-> <<>>]
\* a structured value that holds the text s, as [{"type": "text", "text": s}]
StructuredText(s) == [type |-> "list", value |-> s]

\* a type test that takes every content for a str
IsStr_Any(content) == TRUE

\* isinstance(content, str)
IsStr(content) == content.type = "str"

\* the default of msg.get('content', '')
EmptyStr == Str(<<>>)

TxtRetry ==
    <<"P","l","e","a","s","e"," ","t","r","y"," ","t","o"," ","r","e","s","o","l","v","e"," ","t","h","e"," ","c","a","s","e"," ","a","g","a","i","n",".">>
TxtRetryUpper ==
    <<"T","R","Y"," ","T","O"," ","R","E","S","O","L","V","E"," ","T","H","E"," ","C","A","S","E"," ","A","G","A","I","N">>
TxtRetryTwice ==
    <<"t","r","y"," ","t","o"," ","r","e","s","o","l","v","e"," ","t","h","e"," ","c","a","s","e"," ","a","g","a","i","n",","," ","t","r","y"," ","t","o"," ","r","e","s","o","l","v","e"," ","t","h","e"," ","c","a","s","e"," ","a","g","a","i","n">>
TxtUnresolved ==
    <<"C","a","s","e"," ","n","o","t"," ","r","e","s","o","l","v","e","d">>
TxtUnresolvedLower ==
    <<"c","a","s","e"," ","n","o","t"," ","r","e","s","o","l","v","e","d">>
TxtMeta ==
    <<"E","x","i","s","t","i","n","g"," ","A","g","e","n","t"," ","S","y","s","t","e","m"," ","M","e","t","a","C","h","a","i","n">>
TxtAnswer ==
    <<"F","I","N","A","L"," ","A","N","S","W","E","R",":"," ","4","2">>

Msg(role, content) == [role |-> role, content |-> content]

\* the messages transcripts are built from
MessageSet ==
    { Msg("user", Str(TxtRetry)),
      Msg("user", Str(TxtRetryUpper)),
      Msg("user", Str(TxtRetryTwice)),
      Msg("tool", Str(TxtUnresolved)),
      Msg("tool", Str(TxtUnresolvedLower)),
      Msg("system", Str(TxtMeta)),
      Msg("assistant", Str(TxtAnswer)),
      Msg("assistant", Structured),
      Msg("user", StructuredText(TxtRetry)),
      [role |-> "assistant"] }

\* the transcripts of at most n messages
TranscriptsUpTo(n) == UNION { [1..m -> MessageSet] : m \in 0..n }

(***************************************************************************)
(* fix_cost.py: detect_retry_pattern                                       *)
(***************************************************************************)
\* one iteration of the loop over messages, from the counters acc
DetectStep(acc, msg) ==
    LET content == Get(msg, "content", EmptyStr)
    IN  IF IsStr(content)
        THEN [retry_count |->
                  IF Contains(Lower(content.value), RetryPhrase)
                  THEN acc.retry_count + 1 ELSE acc.retry_count,
              case_not_resolved_count |->
                  IF Contains(content.value, UnresolvedPhrase)
                  THEN acc.case_not_resolved_count + 1
                  ELSE acc.case_not_resolved_count,
              has_meta_agent |->
                  IF /\ Contains(Lower(content.value), MetaPhrase)
                     /\ Contains(content.value, MetaMarker)
                  THEN TRUE ELSE acc.has_meta_agent]
        ELSE acc

RECURSIVE DetectLoop(_, _, _)
DetectLoop(messages, i, acc) ==
    IF i > Len(messages) THEN acc
    ELSE DetectLoop(messages, i + 1, DetectStep(acc, messages[i]))

\* (retry_count, case_not_resolved_count, has_meta_agent)
detect_retry_pattern(messages) ==
    DetectLoop(messages, 1,
               [retry_count |-> 0, case_not_resolved_count |-> 0,
                has_meta_agent |-> FALSE])

(***************************************************************************)
(* fix_cost.py: fix_instance_cost                                          *)
(***************************************************************************)
\* int(x) of an int x: token counts are ints and int * int is an int
int(x) == x

\* a multiplier that counts the retries and not the first attempt
Multiplier_RetriesOnly(retry_count) == retry_count

\* multiplier: total attempts = retry_count + 1
Multiplier(retry_count) == retry_count + 1

\* a check that never finds the record in no need of a fix
NoFixNeeded_Never(retry_count) == FALSE

\* if retry_count == 0: no retries detected, no fix needed
NoFixNeeded(retry_count) == retry_count = 0

\* the dict literal fixed_usage_stats
FixedUsageStats(usage_stats, retry_count) ==
    LET multiplier == Multiplier(retry_count)
        original_cost == Get(usage_stats, "total_cost", 0)
    IN  [total_prompt_tokens |->
             int(Get(usage_stats, "total_prompt_tokens", 0) * multiplier),
         total_completion_tokens |->
             int(Get(usage_stats, "total_completion_tokens", 0) * multiplier),
         total_tokens |-> int(Get(usage_stats, "total_tokens", 0) * multiplier),
         total_cost |-> original_cost * multiplier,
         api_calls |-> Get(usage_stats, "api_calls", 0) * multiplier,
         _original_cost |-> original_cost,
         _original_api_calls |-> Get(usage_stats, "api_calls", 0),
         _retry_count |-> retry_count,
         _multiplier |-> multiplier]

\* the f-string reason of a modified instance
MultipliedReason(original_cost, retry_count) ==
    [msg |-> "Multiplied by", multiplier |-> Multiplier(retry_count),
     retry_count |-> retry_count, cost_from |-> original_cost,
     cost_to |-> original_cost * Multiplier(retry_count)]

(***************************************************************************)
(* The dict objects of a call of fix_instance_cost.  A heap maps the name  *)
(* of an object to its dict; a dict holds another dict by reference, so    *)
(* that an item assignment shows in every dict that holds the object.      *)
(***************************************************************************)
Ref(id) == [ref |-> id]

\* the objects of the argument: instance, its test_result, its usage_stats
HeapOf(instance) ==
    [o \in {"instance", "test_result", "usage_stats"} |->
        IF o = "instance"
        THEN Put(instance, "test_result", Ref("test_result"))
        ELSE IF o = "test_result"
        THEN Put(instance.test_result, "usage_stats", Ref("usage_stats"))
        ELSE instance.test_result.usage_stats]

\* a new object
Alloc(heap, id, obj) == Put(heap, id, obj)

\* heap[id][k] = v
SetItem(heap, id, k, v) == [heap EXCEPT ![id] = Put(heap[id], k, v)]

\* the record at id with the dicts it refers to
Deref(heap, id) ==
    LET obj == heap[id]
        tr == heap[obj.test_result.ref]
    IN  Put(obj, "test_result",
            Put(tr, "usage_stats", heap[tr.usage_stats.ref]))

\* fixed_instance['test_result'] = test_result, without the copy
CopyTestResult_NoCopy(heap) ==
    SetItem(heap, "fixed_instance", "test_result", Ref("test_result"))

\* fixed_instance['test_result'] = test_result.copy()
CopyTestResult(heap) ==
    SetItem(Alloc(heap, "fixed_test_result", heap["test_result"]),
            "fixed_instance", "test_result", Ref("fixed_test_result"))

\* the three statements under "Update instance"
UpdateInstance(heap, fixed_usage_stats) ==
    LET h1 == Alloc(heap, "fixed_instance", heap["instance"])
        h2 == CopyTestResult(h1)
        h3 == Alloc(h2, "fixed_usage_stats", fixed_usage_stats)
    IN  SetItem(h3, h3["fixed_instance"].test_result.ref, "usage_stats",
                Ref("fixed_usage_stats"))

\* the heap when fix_instance_cost returns a modified instance
FixedHeap(instance) ==
    UpdateInstance(HeapOf(instance),
                   FixedUsageStats(
                       instance.test_result.usage_stats,
                       detect_retry_pattern(instance.messages).retry_count))

\* (fixed_instance, was_modified, reason)
fix_instance_cost(instance) ==
    LET messages == Get(instance, "messages", <<>>)
        test_result == Get(instance, "test_result", EmptyDict)
        usage_stats == Get(test_result, "usage_stats", EmptyDict)
        retry_count == detect_retry_pattern(messages).retry_count
    IN  IF DOMAIN usage_stats = {}
        THEN [fixed_instance |-> instance, was_modified |-> FALSE,
              reason |-> [msg |-> "No usage_stats found"]]
        ELSE IF NoFixNeeded(retry_count)
        THEN [fixed_instance |-> instance, was_modified |-> FALSE,
              reason |-> [msg |-> "No retries detected"]]
        ELSE [fixed_instance |-> Deref(FixedHeap(instance), "fixed_instance"),
              was_modified |-> TRUE,
              reason |-> MultipliedReason(Get(usage_stats, "total_cost", 0),
                                          retry_count)]

\* the argument of fix_instance_cost as the caller finds it after the call
InstanceAfterFix(instance) ==
    IF fix_instance_cost(instance).was_modified
    THEN Deref(FixedHeap(instance), "instance")
    ELSE instance

(***************************************************************************)
(* Instance records, as the harness writes them to output.jsonl            *)
(***************************************************************************)
\* usage_stats with all five fields
Usage(cost, calls, prompt, completion) ==
    [total_prompt_tokens |-> prompt, total_completion_tokens |-> completion,
     total_tokens |-> prompt + completion, total_cost |-> cost,
     api_calls |-> calls]

\* test_result without the usage_stats key
ResultNoUsage(score) == [score |-> score]

\* test_result with usage_stats
ResultWith(score, usage_stats) == [score |-> score, usage_stats |-> usage_stats]

\* one record of output.jsonl
Record(id, level, messages, test_result) ==
    [instance_id |-> id, instance |-> [Level |-> level],
     metadata |-> [agent_func |-> "get_system_triage_agent"],
     messages |-> messages, test_result |-> test_result]

\* the test_result values of the instances given to fix_instance_cost
TestResultSet ==
    { ResultNoUsage(TRUE),
      ResultWith(FALSE, EmptyDict),
      ResultWith(TRUE, [total_cost |-> 3]),
      ResultWith(TRUE, Usage(0, 0, 0, 0)),
      ResultWith(TRUE, Usage(5, 3, 700, 300)),
      ResultWith(FALSE, Usage(2, 1, 40, 2)) }

\* the instances given to fix_instance_cost
InstanceSet ==
    { Record("task-1", "1", m, t) :
          m \in TranscriptsUpTo(MaxMsgs), t \in TestResultSet }

VARIABLES
    cmd,             \* the command that runs: "fix", "analyze", "score",
                     \* or "call" for direct calls of fix_instance_cost
    args,            \* the parsed command line
    fs,              \* the file system: a dict from paths to lists of lines
    original_lines,  \* the lines of the input file when the run starts
    pc,              \* the position of the run
    pos,             \* the number of lines read from the input file
    status,          \* how the process ended
    stdout,          \* what the report printed
    output_path,     \* fix: the path fix_output_file writes to
    summary,         \* fix: fix_output_file's summary
    fixed_lines,     \* fix: fix_output_file's fixed_lines
    total_stats,     \* analyze: analyze_cost's total_stats
    instance_costs,  \* analyze: analyze_cost's instance_costs
    outs,            \* score: the parsed records
    tally,           \* score: the counters of get_score.main
    instance,        \* call: the argument of fix_instance_cost
    ret1,            \* call: fix_instance_cost(instance)
    ret2,            \* call: fix_instance_cost(ret1.fixed_instance)
    after1,          \* call: instance after the first call
    after2,          \* call: ret1.fixed_instance after the second call
    detected         \* call: detect_retry_pattern(instance.messages)

vars ==
    <<cmd, args, fs, original_lines, pc, pos, status, stdout, output_path,
      summary, fixed_lines, total_stats, instance_costs, outs, tally,
      instance, ret1, ret2, after1, after2, detected>>

envVars == <<cmd, args, original_lines>>
fixVars == <<output_path, summary, fixed_lines>>
analyzeVars == <<total_stats, instance_costs>>
scoreVars == <<outs, tally>>
callVars == <<instance, ret1, ret2, after1, after2, detected>>

\* None, and a given path
None == [given |-> FALSE, path |-> <<>>]
Some(p) == [given |-> TRUE, path |-> p]

\* the process is running
Running == [state |-> "running", code |-> 0, exc |-> "", lineno |-> 0]
\* the process ended with exit status code
Exited(code) == [state |-> "exited", code |-> code, exc |-> "", lineno |-> 0]
\* an uncaught exception: a traceback and exit status 1; lineno is the line
\* number the exception's message gives (0: it gives none)
Raised(exc, lineno) ==
    [state |-> "exited", code |-> 1, exc |-> exc, lineno |-> lineno]

\* a result of fix_instance_cost before the call
NoRet ==
    [fixed_instance |-> EmptyDict, was_modified |-> FALSE,
     reason |-> [msg |-> "not called"]]

\* a result of detect_retry_pattern before the call
NoDetection ==
    [called |-> FALSE, retry_count |-> 0, case_not_resolved_count |-> 0,
     has_meta_agent |-> FALSE]

\* summary = {...} of fix_output_file
NewSummary ==
    [total_instances |-> 0, modified_instances |-> 0,
     original_total_cost |-> 0, fixed_total_cost |-> 0,
     modifications |-> <<>>]

\* total_stats = {...} of analyze_cost
NewTotalStats ==
    [total_prompt_tokens |-> 0, total_completion_tokens |-> 0,
     total_tokens |-> 0, total_cost |-> 0, total_api_calls |-> 0,
     num_instances |-> 0]

\* total = 0 ... l3_cost = 0.0 of get_score.main
NewTally ==
    [total |-> 0, success |-> 0,
     l1_total |-> 0, l1_success |-> 0, l1_cost |-> 0,
     l2_total |-> 0, l2_success |-> 0, l2_cost |-> 0,
     l3_total |-> 0, l3_success |-> 0, l3_cost |-> 0]

(***************************************************************************)
(* Direct calls of fix_instance_cost                                       *)
(***************************************************************************)
InitCall ==
    /\ cmd = "call"
    /\ args = [input_file |-> <<>>, output |-> None, dry_run |-> FALSE]
    /\ fs = EmptyDict
    /\ original_lines = <<>>
    /\ pc = "call0"
    /\ pos = 0
    /\ status = Running
    /\ stdout = <<>>
    /\ output_path = <<>>
    /\ summary = NewSummary
    /\ fixed_lines = <<>>
    /\ total_stats = NewTotalStats
    /\ instance_costs = <<>>
    /\ outs = <<>>
    /\ tally = NewTally
    /\ instance \in InstanceSet
    /\ ret1 = NoRet
    /\ ret2 = NoRet
    /\ after1 = EmptyDict
    /\ after2 = EmptyDict
    /\ detected = NoDetection

\* fix_instance_cost(instance)
FixOnce ==
    /\ pc = "call0"
    /\ ret1' = fix_instance_cost(instance)
    /\ after1' = InstanceAfterFix(instance)
    /\ pc' = "call1"
    /\ UNCHANGED <<envVars, fs, pos, status, stdout, fixVars, analyzeVars,
                   scoreVars, instance, ret2, after2, detected>>

\* fix_instance_cost of the record the first call returned
FixAgain ==
    /\ pc = "call1"
    /\ ret2' = fix_instance_cost(ret1.fixed_instance)
    /\ after2' = InstanceAfterFix(ret1.fixed_instance)
    /\ pc' = "call2"
    /\ UNCHANGED <<envVars, fs, pos, status, stdout, fixVars, analyzeVars,
                   scoreVars, instance, ret1, after1, detected>>

\* detect_retry_pattern(instance.get('messages', []))
Detect ==
    /\ cmd = "call"
    /\ ~detected.called
    /\ detected' =
           LET d == detect_retry_pattern(Get(instance, "messages", <<>>))
           IN  [called |-> TRUE, retry_count |-> d.retry_count,
                case_not_resolved_count |-> d.case_not_resolved_count,
                has_meta_agent |-> d.has_meta_agent]
    /\ UNCHANGED <<envVars, fs, pc, pos, status, stdout, fixVars, analyzeVars,
                   scoreVars, instance, ret1, ret2, after1, after2>>

NextCall == FixOnce \/ FixAgain \/ Detect

SpecCall == InitCall /\ [][NextCall]_vars

(***************************************************************************)
(* Lines of a .jsonl file.  A line is blank (whitespace only), a JSON      *)
(* document, or text that is no JSON document: "garbage" fails at its      *)
(* first character, "truncated" is a document cut off before its end.  For *)
(* a JSON line, fmt = "canonical" says that its text is exactly what       *)
(* json.dumps(value, ensure_ascii=False) writes; "other" is any other text *)
(* of the same value (escaped non-ASCII, other separators).                *)
(***************************************************************************)
BlankLine == [kind |-> "blank", fmt |-> "", value |-> EmptyDict]
GarbageLine == [kind |-> "garbage", fmt |-> "", value |-> EmptyDict]
TruncatedLine == [kind |-> "truncated", fmt |-> "", value |-> EmptyDict]
JsonLine(fmt, value) == [kind |-> "json", fmt |-> fmt, value |-> value]

\* not line.strip()
IsBlank(line) == line.kind = "blank"

\* json.loads(line): the value, or JSONDecodeError with the line number its
\* message gives, which counts the lines of the text passed in: 1 for an
\* error inside the line, 2 for an error at the end of the text, after the
\* newline that ends the line
json_loads(line) ==
    IF line.kind = "json"
    THEN [ok |-> TRUE, value |-> line.value, lineno |-> 0]
    ELSE [ok |-> FALSE, value |-> EmptyDict,
          lineno |-> IF line.kind = "garbage" THEN 1 ELSE 2]

\* json.dumps(value, ensure_ascii=False)
json_dumps(value) == JsonLine("canonical", value)

\* the sequences over S of at most n elements
SeqsUpTo(S, n) == UNION { [1..m -> S] : m \in 0..n }

(***************************************************************************)
(* Paths and the file system                                               *)
(***************************************************************************)
PathA ==
    <<"a",".","j","s","o","n","l">>
PathB ==
    <<"b",".","j","s","o","n","l">>
PathTxt ==
    <<"a",".","t","x","t">>
PathMissing ==
    <<"z",".","j","s","o","n","l">>

\* open(path, 'w') and the writes of lines: /dev/null keeps nothing
WriteFile(files, path, lines) ==
    IF path = DevNull THEN files ELSE Put(files, path, lines)

\* the file system with one input file
FileSystem(path, lines) ==
    IF path = PathMissing
    THEN [p \in {DevNull} |-> <<>>]
    ELSE [p \in {DevNull, path} |-> IF p = path THEN lines ELSE <<>>]

\* the command line
Args(input_file, output, dry_run) ==
    [input_file |-> input_file, output |-> output, dry_run |-> dry_run]

(***************************************************************************)
(* fix_cost.py: main and fix_output_file                                   *)
(***************************************************************************)
\* main: output_path = args.output; '/dev/null' on --dry-run
MainOutputPath(a) == IF a.dry_run THEN Some(DevNull) ELSE a.output

\* fix_output_file: the default of output_path
DefaultOutputPath(input_path, out) ==
    IF ~out.given
    THEN Replace(input_path, JsonlSuffix, FixedSuffix)
    ELSE out.path

\* instance.get('test_result', {}).get('usage_stats', {}).get('total_cost', 0)
CostOf(inst) ==
    Get(Get(Get(inst, "test_result", EmptyDict), "usage_stats", EmptyDict),
        "total_cost", 0)

\* a loop body that counts every instance as modified
FixSummaryStep_CountsAll(s, inst) ==
    [total_instances |-> s.total_instances + 1,
     modified_instances |-> s.modified_instances + 1,
     original_total_cost |-> s.original_total_cost + CostOf(inst),
     fixed_total_cost |->
         s.fixed_total_cost + CostOf(fix_instance_cost(inst).fixed_instance),
     modifications |->
         IF fix_instance_cost(inst).was_modified
         THEN Append(s.modifications,
                     [instance_id |-> Get(inst, "instance_id", "None"),
                      reason |-> fix_instance_cost(inst).reason,
                      original_cost |-> CostOf(inst),
                      fixed_cost |->
                          CostOf(fix_instance_cost(inst).fixed_instance)])
         ELSE s.modifications]

\* the body of fix_output_file's loop for a parsed instance
FixSummaryStep(s, inst) ==
    LET original_cost == CostOf(inst)
        ret == fix_instance_cost(inst)
        fixed_cost == CostOf(ret.fixed_instance)
    IN  [total_instances |-> s.total_instances + 1,
         modified_instances |->
             IF ret.was_modified THEN s.modified_instances + 1
             ELSE s.modified_instances,
         original_total_cost |-> s.original_total_cost + original_cost,
         fixed_total_cost |-> s.fixed_total_cost + fixed_cost,
         modifications |->
             IF ret.was_modified
             THEN Append(s.modifications,
                         [instance_id |-> Get(inst, "instance_id", "None"),
                          reason |-> ret.reason,
                          original_cost |-> original_cost,
                          fixed_cost |-> fixed_cost])
             ELSE s.modifications]

\* fixed_lines with the unmodified records left out
FixedLinesStep_ModifiedOnly(lines, inst) ==
    IF fix_instance_cost(inst).was_modified
    THEN Append(lines, json_dumps(fix_instance_cost(inst).fixed_instance))
    ELSE lines

\* fixed_lines.append(json.dumps(fixed_instance, ensure_ascii=False))
FixedLinesStep(lines, inst) ==
    Append(lines, json_dumps(fix_instance_cost(inst).fixed_instance))

\* main up to the call of fix_output_file, and fix_output_file up to its loop
FixMain ==
    /\ cmd = "fix"
    /\ pc = "main"
    /\ IF args.input_file \notin DOMAIN fs
       THEN /\ stdout' = <<[section |-> "error", file |-> args.input_file]>>
            /\ status' = Exited(1)
            /\ pc' = "done"
            /\ UNCHANGED output_path
       ELSE /\ output_path' =
                   DefaultOutputPath(args.input_file, MainOutputPath(args))
            /\ pc' = "read"
            /\ UNCHANGED <<stdout, status>>
    /\ summary' = NewSummary
    /\ fixed_lines' = <<>>
    /\ UNCHANGED <<envVars, fs, pos, analyzeVars, scoreVars, callVars>>

\* one iteration of `for line in f` of fix_output_file
FixReadLine ==
    /\ cmd = "fix"
    /\ pc = "read"
    /\ pos < Len(fs[args.input_file])
    /\ pos' = pos + 1
    /\ LET line == fs[args.input_file][pos + 1]
           parsed == json_loads(line)
       IN  IF IsBlank(line)
           THEN UNCHANGED <<summary, fixed_lines, status, pc>>
           ELSE IF ~parsed.ok
           THEN /\ status' = Raised("JSONDecodeError", parsed.lineno)
                /\ pc' = "done"
                /\ UNCHANGED <<summary, fixed_lines>>
           ELSE /\ summary' = FixSummaryStep(summary, parsed.value)
                /\ fixed_lines' = FixedLinesStep(fixed_lines, parsed.value)
                /\ UNCHANGED <<status, pc>>
    /\ UNCHANGED <<envVars, fs, stdout, output_path, analyzeVars, scoreVars,
                   callVars>>

\* the end of the loop, and the write of the fixed file
FixWrite ==
    /\ cmd = "fix"
    /\ pc = "read"
    /\ pos = Len(fs[args.input_file])
    /\ fs' = WriteFile(fs, output_path, fixed_lines)
    /\ pc' = "report"
    /\ UNCHANGED <<envVars, pos, status, stdout, fixVars, analyzeVars,
                   scoreVars, callVars>>

\* main after fix_output_file returned: the printed summary
FixReport ==
    /\ cmd = "fix"
    /\ pc = "report"
    /\ stdout' =
           <<[section |-> "summary",
              input_file |-> args.input_file,
              output_file |->
                  IF args.dry_run THEN None
                  ELSE IF MainOutputPath(args).given
                       THEN MainOutputPath(args)
                       ELSE Some(Replace(args.input_file, JsonlSuffix,
                                         FixedSuffix)),
              total_instances |-> summary.total_instances,
              modified_instances |-> summary.modified_instances,
              original_total_cost |-> summary.original_total_cost,
              fixed_total_cost |-> summary.fixed_total_cost,
              difference |->
                  summary.fixed_total_cost - summary.original_total_cost,
              modifications |-> summary.modifications]>>
    /\ status' = Exited(0)
    /\ pc' = "done"
    /\ UNCHANGED <<envVars, fs, pos, fixVars, analyzeVars, scoreVars,
                   callVars>>

(***************************************************************************)
(* analyze_cost.py: analyze_cost                                           *)
(***************************************************************************)
\* the body of analyze_cost's loop for a parsed record: total_stats
AnalyzeStatsStep(t, data) ==
    LET test_result == Get(data, "test_result", EmptyDict)
        usage_stats == Get(test_result, "usage_stats", EmptyDict)
    IN  IF DOMAIN usage_stats # {}
        THEN [total_prompt_tokens |->
                  t.total_prompt_tokens
                      + Get(usage_stats, "total_prompt_tokens", 0),
              total_completion_tokens |->
                  t.total_completion_tokens
                      + Get(usage_stats, "total_completion_tokens", 0),
              total_tokens |->
                  t.total_tokens + Get(usage_stats, "total_tokens", 0),
              total_cost |-> t.total_cost + Get(usage_stats, "total_cost", 0),
              total_api_calls |->
                  t.total_api_calls + Get(usage_stats, "api_calls", 0),
              num_instances |-> t.num_instances + 1]
        ELSE [t EXCEPT !.num_instances = t.num_instances + 1]

\* the body of analyze_cost's loop for a parsed record: instance_costs
AnalyzeCostsStep(costs, data) ==
    LET test_result == Get(data, "test_result", EmptyDict)
        usage_stats == Get(test_result, "usage_stats", EmptyDict)
    IN  IF DOMAIN usage_stats # {}
        THEN Append(costs,
                    [instance_id |-> Get(data, "instance_id", "None"),
                     cost |-> Get(usage_stats, "total_cost", 0),
                     tokens |-> Get(usage_stats, "total_tokens", 0),
                     api_calls |-> Get(usage_stats, "api_calls", 0),
                     score |-> Get(test_result, "score", FALSE)])
        ELSE costs

\* x inserted into a list sorted by cost, descending, after the entries of
\* the same cost
InsertByCost(sorted, x) ==
    LET n == Cardinality({i \in 1..Len(sorted) : sorted[i].cost >= x.cost})
    IN  SubSeq(sorted, 1, n) \o <<x>> \o SubSeq(sorted, n + 1, Len(sorted))

RECURSIVE SortFrom(_, _, _)
SortFrom(costs, i, sorted) ==
    IF i > Len(costs) THEN sorted
    ELSE SortFrom(costs, i + 1, InsertByCost(sorted, costs[i]))

\* instance_costs.sort(key=lambda x: x["cost"], reverse=True): stable
SortByCostDesc(costs) == SortFrom(costs, 1, <<>>)

\* a quotient a / b of two numbers, kept exact
Quotient(a, b) == [num |-> a, den |-> b]

\* what analyze_cost prints after its loop
AnalyzeReportOf(t, costs) ==
    <<[section |-> "totals",
       num_instances |-> t.num_instances,
       total_api_calls |-> t.total_api_calls,
       total_prompt_tokens |-> t.total_prompt_tokens,
       total_completion_tokens |-> t.total_completion_tokens,
       total_tokens |-> t.total_tokens,
       total_cost |-> t.total_cost]>>
    \o (IF t.num_instances > 0
        THEN <<[section |-> "averages",
                avg_calls |-> Quotient(t.total_api_calls, t.num_instances),
                avg_tokens |-> Quotient(t.total_tokens, t.num_instances),
                avg_cost |-> Quotient(t.total_cost, t.num_instances)]>>
        ELSE <<>>)
    \o (IF costs # <<>>
        THEN <<[section |-> "top",
                instances |->
                    SubSeq(SortByCostDesc(costs), 1,
                           IF Len(costs) < 5 THEN Len(costs) ELSE 5)]>>
        ELSE <<>>)

\* analyze_cost up to its loop
AnalyzeOpen ==
    /\ cmd = "analyze"
    /\ pc = "main"
    /\ IF args.input_file \notin DOMAIN fs
       THEN /\ stdout' = <<[section |-> "error", file |-> args.input_file]>>
            /\ status' = Exited(1)
            /\ pc' = "done"
       ELSE /\ pc' = "read"
            /\ UNCHANGED <<stdout, status>>
    /\ total_stats' = NewTotalStats
    /\ instance_costs' = <<>>
    /\ UNCHANGED <<envVars, fs, pos, fixVars, scoreVars, callVars>>

\* one iteration of `for line in f` of analyze_cost
AnalyzeReadLine ==
    /\ cmd = "analyze"
    /\ pc = "read"
    /\ pos < Len(fs[args.input_file])
    /\ pos' = pos + 1
    /\ LET line == fs[args.input_file][pos + 1]
           parsed == json_loads(line)
       IN  IF IsBlank(line)
           THEN UNCHANGED <<total_stats, instance_costs, status, pc>>
           ELSE IF ~parsed.ok
           THEN /\ status' = Raised("JSONDecodeError", parsed.lineno)
                /\ pc' = "done"
                /\ UNCHANGED <<total_stats, instance_costs>>
           ELSE /\ total_stats' = AnalyzeStatsStep(total_stats, parsed.value)
                /\ instance_costs' =
                       AnalyzeCostsStep(instance_costs, parsed.value)
                /\ UNCHANGED <<status, pc>>
    /\ UNCHANGED <<envVars, fs, stdout, fixVars, scoreVars, callVars>>

\* analyze_cost after its loop: the printed analysis
AnalyzeReport ==
    /\ cmd = "analyze"
    /\ pc = "read"
    /\ pos = Len(fs[args.input_file])
    /\ stdout' = AnalyzeReportOf(total_stats, instance_costs)
    /\ status' = Exited(0)
    /\ pc' = "done"
    /\ UNCHANGED <<envVars, fs, pos, fixVars, analyzeVars, scoreVars,
                   callVars>>

(***************************************************************************)
(* get_score.py: main                                                      *)
(***************************************************************************)
\* for line in lines: outs.append(json.loads(line)), from line i on: the
\* records, or the first line json.loads raises on
RECURSIVE ScoreParse(_, _, _)
ScoreParse(lines, i, acc) ==
    IF i > Len(lines) THEN [ok |-> TRUE, outs |-> acc, at |-> 0, lineno |-> 0]
    ELSE LET parsed == json_loads(lines[i])
         IN  IF parsed.ok
             THEN ScoreParse(lines, i + 1, Append(acc, parsed.value))
             ELSE [ok |-> FALSE, outs |-> acc, at |-> i,
                   lineno |-> parsed.lineno]

\* the subscripts out[...][...] of one iteration of the loop over outs find
\* their keys
ScoreKeysPresent(out) ==
    /\ "test_result" \in DOMAIN out
    /\ "score" \in DOMAIN out.test_result
    /\ "instance" \in DOMAIN out
    /\ "Level" \in DOMAIN out.instance
    /\ out.instance.Level \in {"1", "2", "3"}
           => /\ "usage_stats" \in DOMAIN out.test_result
              /\ "total_cost" \in DOMAIN out.test_result.usage_stats

\* one iteration of the loop over outs
ScoreTallyStep(t, out) ==
    LET ok == out.test_result.score
        level == out.instance.Level
        cost == out.test_result.usage_stats.total_cost
        t0 == [t EXCEPT !.total = t.total + 1,
                        !.success = IF ok THEN t.success + 1 ELSE t.success]
    IN  IF level = "1"
        THEN [t0 EXCEPT !.l1_total = t.l1_total + 1,
                        !.l1_success =
                            IF ok THEN t.l1_success + 1 ELSE t.l1_success,
                        !.l1_cost = t.l1_cost + cost]
        ELSE IF level = "2"
        THEN [t0 EXCEPT !.l2_total = t.l2_total + 1,
                        !.l2_success =
                            IF ok THEN t.l2_success + 1 ELSE t.l2_success,
                        !.l2_cost = t.l2_cost + cost]
        ELSE IF level = "3"
        THEN [t0 EXCEPT !.l3_total = t.l3_total + 1,
                        !.l3_success =
                            IF ok THEN t.l3_success + 1 ELSE t.l3_success,
                        !.l3_cost = t.l3_cost + cost]
        ELSE t0

\* for out in outs, from record i on: the counters, or KeyError
RECURSIVE ScoreTallyLoop(_, _, _)
ScoreTallyLoop(records, i, t) ==
    IF i > Len(records) THEN [ok |-> TRUE, tally |-> t, at |-> 0]
    ELSE IF ~ScoreKeysPresent(records[i])
         THEN [ok |-> FALSE, tally |-> t, at |-> i]
         ELSE ScoreTallyLoop(records, i + 1, ScoreTallyStep(t, records[i]))

\* the four success-rate lines, in the order printed
ScoreRateLines(t) ==
    <<[section |-> "rate", of |-> "all", success |-> t.success,
       total |-> t.total, rate |-> Quotient(t.success * 100, t.total)],
      [section |-> "rate", of |-> "L1", success |-> t.l1_success,
       total |-> t.l1_total, rate |-> Quotient(t.l1_success * 100, t.l1_total)],
      [section |-> "rate", of |-> "L2", success |-> t.l2_success,
       total |-> t.l2_total, rate |-> Quotient(t.l2_success * 100, t.l2_total)],
      [section |-> "rate", of |-> "L3", success |-> t.l3_success,
       total |-> t.l3_total, rate |-> Quotient(t.l3_success * 100, t.l3_total)]>>

\* the four cost lines, in the order printed
ScoreCostLines(t) ==
    <<[section |-> "cost", of |-> "L1", cost |-> t.l1_cost],
      [section |-> "cost", of |-> "L2", cost |-> t.l2_cost],
      [section |-> "cost", of |-> "L3", cost |-> t.l3_cost],
      [section |-> "cost", of |-> "all",
       cost |-> t.l1_cost + t.l2_cost + t.l3_cost]>>

\* the number of rate lines printed before a division by zero raises (4: none
\* raises)
RatesPrinted(t) ==
    LET rates == ScoreRateLines(t)
        zero == {i \in 1..4 : rates[i].total = 0}
    IN  IF zero = {} THEN 4
        ELSE (CHOOSE i \in zero : \A j \in zero : i <= j) - 1

\* open, readlines and the parse of every line
ScoreLoad ==
    /\ cmd = "score"
    /\ pc = "main"
    /\ IF args.input_file \notin DOMAIN fs
       THEN /\ status' = Raised("FileNotFoundError", 0)
            /\ pc' = "done"
            /\ UNCHANGED <<outs, pos>>
       ELSE LET r == ScoreParse(fs[args.input_file], 1, <<>>)
            IN  /\ outs' = r.outs
                /\ pos' = IF r.ok THEN Len(fs[args.input_file]) ELSE r.at
                /\ status' =
                       IF r.ok THEN status
                       ELSE Raised("JSONDecodeError", r.lineno)
                /\ pc' = IF r.ok THEN "metadata" ELSE "done"
    /\ tally' = NewTally
    /\ UNCHANGED <<envVars, fs, stdout, fixVars, analyzeVars, callVars>>

\* print(f'Reading ...') and print(f'Metadata: ... {outs[0]["metadata"]}')
ScoreMetadata ==
    /\ cmd = "score"
    /\ pc = "metadata"
    /\ IF outs = <<>>
       THEN /\ stdout' = <<[section |-> "reading", file |-> args.input_file]>>
            /\ status' = Raised("IndexError", 0)
            /\ pc' = "done"
       ELSE IF "metadata" \notin DOMAIN outs[1]
       THEN /\ stdout' = <<[section |-> "reading", file |-> args.input_file]>>
            /\ status' = Raised("KeyError", 0)
            /\ pc' = "done"
       ELSE /\ stdout' = <<[section |-> "reading", file |-> args.input_file],
                           [section |-> "metadata",
                            metadata |-> outs[1].metadata]>>
            /\ pc' = "tally"
            /\ UNCHANGED status
    /\ UNCHANGED <<envVars, fs, pos, fixVars, analyzeVars, scoreVars,
                   callVars>>

\* the loop over outs
ScoreTally ==
    /\ cmd = "score"
    /\ pc = "tally"
    /\ LET r == ScoreTallyLoop(outs, 1, tally)
       IN  /\ tally' = r.tally
           /\ status' = IF r.ok THEN status ELSE Raised("KeyError", 0)
           /\ pc' = IF r.ok THEN "report" ELSE "done"
    /\ UNCHANGED <<envVars, fs, pos, stdout, fixVars, analyzeVars, outs,
                   callVars>>

\* the prints after the loop
ScoreReport ==
    /\ cmd = "score"
    /\ pc = "report"
    /\ LET n == RatesPrinted(tally)
       IN  IF n < 4
           THEN /\ stdout' = stdout \o SubSeq(ScoreRateLines(tally), 1, n)
                /\ status' = Raised("ZeroDivisionError", 0)
           ELSE /\ stdout' = stdout \o ScoreRateLines(tally)
                                    \o ScoreCostLines(tally)
                /\ status' = Exited(0)
    /\ pc' = "done"
    /\ UNCHANGED <<envVars, fs, pos, fixVars, analyzeVars, scoreVars,
                   callVars>>

(***************************************************************************)
(* The runs: a command, its command line and its input file                *)
(***************************************************************************)
\* transcripts of the records in input files
NoRetry == <<Msg("assistant", Str(TxtAnswer))>>
OneRetry ==
    <<Msg("tool", Str(TxtUnresolved)), Msg("user", Str(TxtRetry)),
      Msg("assistant", Str(TxtAnswer))>>
TwoRetries ==
    <<Msg("user", Str(TxtRetry)), Msg("assistant", Structured),
      Msg("user", Str(TxtRetryUpper))>>

\* the lines of the input files of fix
FixLineSet ==
    { BlankLine, GarbageLine, TruncatedLine,
      JsonLine("canonical",
               Record("task-1", "1", NoRetry,
                      ResultWith(TRUE, Usage(5, 3, 700, 300)))),
      JsonLine("other",
               Record("task-2", "2", OneRetry,
                      ResultWith(FALSE, Usage(2, 1, 40, 2)))),
      JsonLine("canonical",
               Record("task-3", "3", TwoRetries,
                      ResultWith(TRUE, Usage(1, 2, 10, 5)))),
      JsonLine("canonical",
               Record("task-4", "2", OneRetry, ResultNoUsage(FALSE))) }

\* the lines of the input files of analyze
AnalyzeLineSet ==
    { BlankLine, GarbageLine,
      JsonLine("canonical",
               Record("task-1", "1", NoRetry,
                      ResultWith(TRUE, Usage(5, 3, 700, 300)))),
      JsonLine("canonical",
               Record("task-2", "2", OneRetry,
                      ResultWith(FALSE, Usage(2, 1, 40, 2)))),
      JsonLine("canonical",
               Record("task-4", "2", OneRetry, ResultNoUsage(FALSE))),
      JsonLine("canonical",
               Record("task-5", "3", NoRetry, ResultWith(TRUE, EmptyDict))) }

\* the lines of the input files of score
ScoreLineSet ==
    { BlankLine, GarbageLine,
      JsonLine("canonical",
               Record("task-1", "1", NoRetry,
                      ResultWith(TRUE, Usage(5, 3, 700, 300)))),
      JsonLine("canonical",
               Record("task-2", "2", OneRetry,
                      ResultWith(FALSE, Usage(2, 1, 40, 2)))),
      JsonLine("canonical",
               Record("task-3", "3", TwoRetries,
                      ResultWith(TRUE, Usage(1, 2, 10, 5)))),
      JsonLine("canonical",
               Record("task-4", "2", OneRetry, ResultNoUsage(FALSE))),
      JsonLine("canonical",
               Record("task-6", "4", NoRetry,
                      ResultWith(TRUE, Usage(7, 4, 90, 10)))) }

\* the command lines of fix
FixArgsSet ==
    { Args(PathA, None, FALSE),
      Args(PathTxt, None, FALSE),
      Args(PathA, Some(PathB), FALSE),
      Args(PathA, Some(PathA), FALSE),
      Args(PathA, None, TRUE),
      Args(PathMissing, None, FALSE) }

\* the command lines of analyze and of score
ReadArgsSet == { Args(PathA, None, FALSE), Args(PathMissing, None, FALSE) }

\* the runs: command, command line, lines of the input file
RunSet ==
    ({"fix"} \X FixArgsSet \X SeqsUpTo(FixLineSet, MaxFixLines))
    \cup ({"analyze"} \X ReadArgsSet \X SeqsUpTo(AnalyzeLineSet, MaxAnalyzeLines))
    \cup ({"score"} \X ReadArgsSet \X SeqsUpTo(ScoreLineSet, MaxScoreLines))

Init ==
    \E run \in RunSet :
        /\ run[2].input_file = PathMissing => run[3] = <<>>
        /\ cmd = run[1]
        /\ args = run[2]
        /\ original_lines = run[3]
        /\ fs = FileSystem(run[2].input_file, run[3])
        /\ pc = "main"
        /\ pos = 0
        /\ status = Running
        /\ stdout = <<>>
        /\ output_path = <<>>
        /\ summary = NewSummary
        /\ fixed_lines = <<>>
        /\ total_stats = NewTotalStats
        /\ instance_costs = <<>>
        /\ outs = <<>>
        /\ tally = NewTally
        /\ instance = EmptyDict
        /\ ret1 = NoRet
        /\ ret2 = NoRet
        /\ after1 = EmptyDict
        /\ after2 = EmptyDict
        /\ detected = NoDetection

Next ==
    \/ FixMain
    \/ FixReadLine
    \/ FixWrite
    \/ FixReport
    \/ AnalyzeOpen
    \/ AnalyzeReadLine
    \/ AnalyzeReport
    \/ ScoreLoad
    \/ ScoreMetadata
    \/ ScoreTally
    \/ ScoreReport

Spec == Init /\ [][Next]_vars

(***************************************************************************)
(* Properties                                                              *)
(***************************************************************************)
\* the usage_stats of a record ({} when it has none)
UsageOf(inst) ==
    Get(Get(inst, "test_result", EmptyDict), "usage_stats", EmptyDict)

\* the retry_count of a record's transcript
RetryCountOf(inst) ==
    detect_retry_pattern(Get(inst, "messages", <<>>)).retry_count

ScaledKeys ==
    {"total_cost", "api_calls", "total_prompt_tokens",
     "total_completion_tokens", "total_tokens"}

AuditKeys ==
    {"_original_cost", "_original_api_calls", "_retry_count", "_multiplier"}

\* the calls of fix_instance_cost made so far, as <<argument, result>>
CallsMade ==
    (IF cmd = "call" /\ pc \in {"call1", "call2"}
     THEN {<<instance, ret1>>} ELSE {})
    \cup (IF cmd = "call" /\ pc = "call2"
          THEN {<<ret1.fixed_instance, ret2>>} ELSE {})

\* C1: a record with non-empty usage_stats and retry_count = k >= 1 comes
\* back with each of the five usage fields equal to the original value times
\* k + 1, and with the audit fields _retry_count = k, _multiplier = k + 1,
\* _original_cost and _original_api_calls the original cost and api_calls.
C1_ScaledByAttempts ==
    \A c \in CallsMade :
        LET u == UsageOf(c[1])
            k == RetryCountOf(c[1])
            f == UsageOf(c[2].fixed_instance)
        IN  (DOMAIN u # {} /\ k >= 1) =>
                /\ DOMAIN f = ScaledKeys \cup AuditKeys
                /\ \A key \in ScaledKeys : f[key] = Get(u, key, 0) * (k + 1)
                /\ f["_retry_count"] = k
                /\ f["_multiplier"] = k + 1
                /\ f["_original_cost"] = Get(u, "total_cost", 0)
                /\ f["_original_api_calls"] = Get(u, "api_calls", 0)

\* a record with two retry messages and cost 5, api_calls 3, total_tokens
\* 1000 came back with 15, 9 and 3000
C1_Witness ==
    /\ cmd = "call"
    /\ pc = "call1"
    /\ RetryCountOf(instance) = 2
    /\ UsageOf(instance) = Usage(5, 3, 700, 300)
    /\ UsageOf(ret1.fixed_instance)["total_cost"] = 15
    /\ UsageOf(ret1.fixed_instance)["api_calls"] = 9
    /\ UsageOf(ret1.fixed_instance)["total_tokens"] = 3000
    /\ UsageOf(ret1.fixed_instance)["_multiplier"] = 3

\* C2: fix_instance_cost of an already reconciled record, which carries the
\* same transcript, returns the usage_stats the first call returned.
C2_Idempotent ==
    (cmd = "call" /\ pc = "call2") =>
        UsageOf(ret2.fixed_instance) = UsageOf(ret1.fixed_instance)

\* C3: a record whose transcript has no retry message comes back with its
\* usage_stats as they were, was_modified = false and no audit field added.
C3_NoRetryIdentity ==
    \A c \in CallsMade :
        RetryCountOf(c[1]) = 0 =>
            /\ c[2].fixed_instance = c[1]
            /\ UsageOf(c[2].fixed_instance) = UsageOf(c[1])
            /\ c[2].was_modified = FALSE
            /\ AuditKeys \cap DOMAIN UsageOf(c[2].fixed_instance) = {}

\* a record with usage_stats and two messages, none a retry message, was
\* returned with the reason "No retries detected"
C3_Witness ==
    /\ cmd = "call"
    /\ pc = "call1"
    /\ Len(instance.messages) = 2
    /\ instance.messages[1] = Msg("tool", Str(TxtUnresolved))
    /\ RetryCountOf(instance) = 0
    /\ UsageOf(instance) = Usage(5, 3, 700, 300)
    /\ ret1.reason = [msg |-> "No retries detected"]
    /\ UsageOf(ret1.fixed_instance) = Usage(5, 3, 700, 300)

\* the records of the JSON lines among lines, in order
RECURSIVE JsonValues(_)
JsonValues(lines) ==
    IF lines = <<>> THEN <<>>
    ELSE (IF Head(lines).kind = "json" THEN <<Head(lines).value>> ELSE <<>>)
         \o JsonValues(Tail(lines))

\* the 1-based number of the first non-blank line that does not parse (0: all
\* parse)
FirstBadLine(lines) ==
    LET bad == {i \in 1..Len(lines) :
                    lines[i].kind \in {"garbage", "truncated"}}
    IN  IF bad = {} THEN 0 ELSE CHOOSE i \in bad : \A j \in bad : i <= j

\* the input file exists and the run has ended
RunEnded == cmd \in {"fix", "analyze", "score"} /\ pc = "done"
InputExists == args.input_file # PathMissing

\* the sum of usage_stats.total_cost over records
RECURSIVE SumCost(_)
SumCost(records) ==
    IF records = <<>> THEN 0
    ELSE CostOf(Head(records)) + SumCost(Tail(records))

\* the printed lines of one section
Printed(section) == SelectSeq(stdout, LAMBDA x : x.section = section)

\* C4: a run of fix never changes its input file: the reconciled records go
\* to another path, and the input file holds after the run what it held
\* before.
C4_SourceNotMutated ==
    (cmd = "fix" /\ InputExists) => fs[args.input_file] = original_lines

\* C5: a zero instance count raises nothing: on an input of complete records,
\* empty or with a Level that has no instance, analyze and score end with
\* exit status 0 and print a rate or an average only for a count above 0.
C5_ZeroCountGuarded ==
    (/\ cmd \in {"analyze", "score"}
     /\ pc = "done"
     /\ InputExists
     /\ \A i \in 1..Len(original_lines) :
            /\ original_lines[i].kind = "json"
            /\ "total_cost" \in DOMAIN UsageOf(original_lines[i].value))
    => /\ status = Exited(0)
       /\ \A i \in 1..Len(stdout) :
              stdout[i].section = "rate" => stdout[i].total > 0
       /\ Printed("averages") # <<>> => total_stats.num_instances > 0

\* C6: the total cost score reports is the sum of total_cost over all the
\* records, those of an unrecognised Level included, and such a record is
\* counted in the global instance and success counts.
C6_GlobalTotalIsSum ==
    (cmd = "score" /\ pc = "done" /\ status = Exited(0)) =>
        /\ tally.total = Len(outs)
        /\ \A i \in 1..Len(stdout) :
               (stdout[i].section = "cost" /\ stdout[i].of = "all")
                   => stdout[i].cost = SumCost(outs)

\* C7: a record without usage_stats, or with empty ones, is recovered by every
\* command: fix writes it as it was, and analyze and score read on to the end
\* of the input without an error from that record.
C7_MissingUsageRecovered ==
    (/\ RunEnded
     /\ InputExists
     /\ \A i \in 1..Len(original_lines) : original_lines[i].kind = "json")
    => /\ status.exc # "KeyError"
       /\ cmd = "fix" =>
              \A i \in 1..Len(original_lines) :
                  DOMAIN UsageOf(original_lines[i].value) = {}
                      => fixed_lines[i].value = original_lines[i].value
       /\ cmd = "analyze" =>
              /\ total_stats.num_instances = Len(original_lines)
              /\ total_stats.total_cost = SumCost(JsonValues(original_lines))

\* C8: when line n is the first non-blank line that does not parse, the run
\* ends in an error that names line n, and nothing at or after line n is
\* processed or written.
C8_ParseErrorNamesLine ==
    LET n == FirstBadLine(original_lines)
        before == JsonValues(SubSeq(original_lines, 1, n - 1))
    IN  (RunEnded /\ InputExists /\ n > 0) =>
            /\ status.state = "exited"
            /\ status.code = 1
            /\ status.exc = "JSONDecodeError"
            /\ status.lineno = n
            /\ cmd = "fix" =>
                   /\ summary.total_instances = Len(before)
                   /\ fs = FileSystem(args.input_file, original_lines)
            /\ cmd = "analyze" => total_stats.num_instances = Len(before)
            /\ cmd = "score" => Len(outs) <= Len(before)

\* C9: every command skips blank lines: an input whose non-blank lines all
\* parse is read without a parse error, and the records taken from it are
\* those of its non-blank lines.
C9_BlankLinesSkipped ==
    (RunEnded /\ InputExists /\ FirstBadLine(original_lines) = 0) =>
        /\ status.exc # "JSONDecodeError"
        /\ cmd = "fix" =>
               summary.total_instances = Len(JsonValues(original_lines))
        /\ cmd = "analyze" =>
               total_stats.num_instances = Len(JsonValues(original_lines))
        /\ cmd = "score" => outs = JsonValues(original_lines)

\* r2 is r with its usage_stats replaced by reconciled ones
IsReconciled(r, r2) ==
    LET u2 == UsageOf(r2)
    IN  /\ AuditKeys \subseteq DOMAIN u2
        /\ u2["_multiplier"] >= 2
        /\ u2["total_cost"] = CostOf(r) * u2["_multiplier"]
        /\ r2 = Put(r, "test_result", Put(r.test_result, "usage_stats", u2))

\* C10: after a successful run of fix that writes a file, the file holds one
\* line for each non-blank input line, in the same order, and line i is
\* record i as it was or record i reconciled.
C10_OutputLineForLine ==
    (cmd = "fix" /\ pc = "done" /\ status = Exited(0) /\ output_path # DevNull)
    => LET records == JsonValues(original_lines)
           written == fs[output_path]
       IN  /\ Len(written) = Len(records)
           /\ \A i \in 1..Len(records) :
                  /\ written[i].kind = "json"
                  /\ \/ written[i].value = records[i]
                     \/ IsReconciled(records[i], written[i].value)

\* a run over a record without retries, a blank line and a record with one
\* retry wrote two lines, the second one reconciled
C10_Witness ==
    /\ cmd = "fix"
    /\ pc = "done"
    /\ status = Exited(0)
    /\ output_path # DevNull
    /\ output_path # args.input_file
    /\ Len(original_lines) = 3
    /\ original_lines[2] = BlankLine
    /\ Len(fs[output_path]) = 2
    /\ fs[output_path][1].value = original_lines[1].value
    /\ fs[output_path][2].value # original_lines[3].value
    /\ summary.modified_instances = 1

\* the calls of fix_instance_cost made so far, as <<argument, result, the
\* argument object after the call>>
CallsWithAfter ==
    (IF cmd = "call" /\ pc \in {"call1", "call2"}
     THEN {<<instance, ret1, after1>>} ELSE {})
    \cup (IF cmd = "call" /\ pc = "call2"
          THEN {<<ret1.fixed_instance, ret2, after2>>} ELSE {})

\* C11: the record fix_instance_cost returns has the fields of its argument
\* (instance_id, Level, messages, score and the rest) unchanged outside
\* test_result.usage_stats, and the argument object, its test_result and
\* usage_stats included, is after the call what it was before.
C11_OnlyUsageStatsReplaced ==
    \A c \in CallsWithAfter :
        LET a == c[1]
            r == c[2].fixed_instance
        IN  /\ DOMAIN r = DOMAIN a
            /\ \A k \in DOMAIN a \ {"test_result"} : r[k] = a[k]
            /\ DOMAIN r.test_result \ {"usage_stats"}
                   = DOMAIN a.test_result \ {"usage_stats"}
            /\ \A k \in DOMAIN a.test_result \ {"usage_stats"} :
                   r.test_result[k] = a.test_result[k]
            /\ c[3] = a

\* a record with two messages was modified: the returned record differs from
\* the argument, which still holds its usage_stats of cost 5
C11_Witness ==
    /\ cmd = "call"
    /\ pc = "call1"
    /\ Len(instance.messages) = 2
    /\ ret1.was_modified
    /\ ret1.fixed_instance # instance
    /\ ret1.fixed_instance.messages = instance.messages
    /\ UsageOf(ret1.fixed_instance)["total_cost"] = 10
    /\ UsageOf(after1) = Usage(5, 3, 700, 300)

\* two characters that are equal up to the case of a letter
SameLetter(c, d) ==
    \/ c = d
    \/ \E i \in 1..26 : {c, d} = {UpperCase[i], LowerCase[i]}

\* text holds phrase at some place, the case of letters ignored
HoldsIgnoringCase(text, phrase) ==
    \E i \in 1..Len(text) :
        /\ i + Len(phrase) - 1 <= Len(text)
        /\ \A j \in 1..Len(phrase) : SameLetter(text[i + j - 1], phrase[j])

\* text holds phrase at some place, character for character
HoldsExactly(text, phrase) ==
    \E i \in 1..Len(text) :
        /\ i + Len(phrase) - 1 <= Len(text)
        /\ \A j \in 1..Len(phrase) : text[i + j - 1] = phrase[j]

\* the places of the messages whose content is a str that satisfies P
StrMessages(messages, P(_)) ==
    {i \in 1..Len(messages) :
        /\ "content" \in DOMAIN messages[i]
        /\ messages[i].content.type = "str"
        /\ P(messages[i].content.value)}

\* C12: retry_count is the number of messages whose str content holds 'try
\* to resolve the case again' in any case, each message counted once;
\* unresolved_count is the number of those whose str content holds 'Case not
\* resolved' exactly; a content that is no str adds nothing to the counts or
\* to the meta flag.
C12_DetectCounts ==
    detected.called =>
        /\ detected.retry_count =
               Cardinality(StrMessages(instance.messages,
                   LAMBDA t : HoldsIgnoringCase(t, RetryPhrase)))
        /\ detected.case_not_resolved_count =
               Cardinality(StrMessages(instance.messages,
                   LAMBDA t : HoldsExactly(t, UnresolvedPhrase)))
        /\ detected.has_meta_agent =
               (StrMessages(instance.messages,
                    LAMBDA t : /\ HoldsIgnoringCase(t, MetaPhrase)
                               /\ HoldsExactly(t, MetaMarker)) # {})

\* a message that holds the phrase twice and a structured content that holds
\* it once were counted as one retry
C12_Witness ==
    /\ detected.called
    /\ instance.messages =
           <<Msg("user", Str(TxtRetryTwice)),
             Msg("user", StructuredText(TxtRetry))>>
    /\ detected.retry_count = 1
    /\ detected.case_not_resolved_count = 0

\* the records fix_output_file has processed: those of the lines read
Processed == JsonValues(SubSeq(original_lines, 1, pos))

\* the record has usage_stats and at least one retry message
NeedsFix(inst) == DOMAIN UsageOf(inst) # {} /\ RetryCountOf(inst) >= 1

\* the sum, over the records that need a fix, of total_cost times retry_count
RECURSIVE SumRetryCost(_)
SumRetryCost(records) ==
    IF records = <<>> THEN 0
    ELSE (IF NeedsFix(Head(records))
          THEN CostOf(Head(records)) * RetryCountOf(Head(records))
          ELSE 0)
         + SumRetryCost(Tail(records))

\* C13: after any number of lines read by fix_output_file,
\* modified_instances is the number of entries of modifications and the
\* number of processed records with usage_stats and a retry, at most
\* total_instances; and fixed_total_cost exceeds original_total_cost by the
\* sum over those records of total_cost times retry_count.
C13_SummaryCounts ==
    (cmd = "fix" /\ pc \in {"read", "report", "done"} /\ InputExists) =>
        /\ summary.modified_instances = Len(summary.modifications)
        /\ summary.modified_instances =
               Cardinality({i \in 1..Len(Processed) : NeedsFix(Processed[i])})
        /\ summary.modified_instances <= summary.total_instances
        /\ summary.fixed_total_cost - summary.original_total_cost
               = SumRetryCost(Processed)

\* two of three lines are read: a record with a retry but no usage_stats,
\* passed through, and a record with two retries and cost 1, modified
C13_Witness ==
    /\ cmd = "fix"
    /\ pc = "read"
    /\ pos = 2
    /\ Len(original_lines) = 3
    /\ Len(Processed) = 2
    /\ RetryCountOf(Processed[1]) = 1
    /\ DOMAIN UsageOf(Processed[1]) = {}
    /\ RetryCountOf(Processed[2]) = 2
    /\ summary.total_instances = 2
    /\ summary.modified_instances = 1
    /\ summary.original_total_cost = 1
    /\ summary.fixed_total_cost = 3
====
